---- MODULE Spec2Model ----
(***************************************************************************)
(* Smart campus manager: the workflow graph executor (StateGraph /         *)
(* CompiledGraph), the campus agent that runs six stages over one mutable  *)
(* CampusAgentState per run, and the predictive maintenance engine.        *)
(*                                                                         *)
(* Spec        the generic executor: stages and edges registered in any    *)
(*             order, abstract handlers that may raise.                    *)
(* SpecCampus  SmartCampusAgent: concurrent process_campus_data calls on   *)
(*             one agent, interleaved at the awaits of ainvoke.            *)
(* SpecPipeline one process_campus_data call, run to its end.              *)
(* SpecDecide  the decision maker on any alerts and recommendations.       *)
(* SpecEngine  PredictiveMaintenanceEngine: training, scoring and batch    *)
(*             scoring.                                                    *)
(* SpecRisk    the days estimate and the risk rule on any probability.     *)
(* SpecSchedule, SpecScored  schedule bucketing on any predictions, and on *)
(*             predictions the risk rule has rated.                        *)
(***************************************************************************)
EXTENDS Integers, Sequences, FiniteSets, TLC

VARIABLES
    nodes,          \* StateGraph.nodes, the dict CompiledGraph.nodes aliases
    edges,          \* StateGraph.edges, the dict CompiledGraph.edges aliases
    entry_point,    \* StateGraph.entry_point
    compiled,       \* the CompiledGraph: NotCompiled, or its entry_point copy
    first_edge,     \* history: per stage, the target of its first add_edge call
    runs,           \* per call of ainvoke / process_campus_data: its frame
    state_history,  \* SmartCampusAgent.state_history
    engine,         \* PredictiveMaintenanceEngine: is_trained, the models' is_fitted
    last,           \* what the last scoring call returned or raised
    batch,          \* the frame of a batch_predict call
    schedule        \* what generate_maintenance_schedule was given and returned

agentVars == <<nodes, edges, entry_point, compiled, first_edge, runs, state_history>>
engineVars == <<engine, last, batch, schedule>>
vars == <<nodes, edges, entry_point, compiled, first_edge, runs, state_history,
          engine, last, batch, schedule>>

----------------------------------------------------------------------------
(* Bounds of the model *)

\* add_edge calls made on one StateGraph
MaxConnects == 2
\* handler invocations of one run of a caller-built graph (a cycle never returns)
MaxSteps == 3
\* concurrent process_campus_data calls on the agent
NumRuns == 2
\* resolution of a probability: p stands for p / PScale
PScale == 20
\* length of the list a batch_predict call is given
MaxBatch == 2
\* length of the list a generate_maintenance_schedule call is given
MaxPreds == 3
\* alerts, and recommendations, in a state handed to the decision maker
MaxItems == 2

----------------------------------------------------------------------------
(* Values *)

\* Python's None: entry_point before set_entry_point, current_task at start
None == "<None>"
\* no CompiledGraph object yet
NotCompiled == "<NotCompiled>"
\* the terminal sentinel
END == "END"

\* stage names a caller registers; "" is a legal str and is falsy
Names == {"", "a", "b"}
\* names an edge may point to: a stage name or the sentinel
Targets == Names \cup {END}
\* handlers a caller registers in the generic executor
Handlers == {"f", "g"}

EmptyDict == <<>>

\* no call made yet
NoCall == [kind |-> "none"]

\* PredictiveMaintenanceEngine.__init__: nothing trained, no model fitted;
\* mock_trained is history, not a field of the engine
NewEngine == [is_trained |-> FALSE, failure_model_fitted |-> FALSE,
              anomaly_detector_fitted |-> FALSE, mock_trained |-> FALSE]

\* no batch_predict call made yet; failed is history: the positions of the
\* items whose scoring raised
IdleBatch == [pc |-> "idle", equipment_list |-> <<>>, i |-> 0, predictions |-> <<>>,
              failed |-> {}]

\* d[k] = v on a dict
DictSet(d, k, v) == [x \in (DOMAIN d) \cup {k} |-> IF x = k THEN v ELSE d[x]]

\* Python truthiness of a str-or-None: None and "" are falsy
Truthy(x) == x # None /\ x # ""

----------------------------------------------------------------------------
(* StateGraph *)

\* add_node: self.nodes[name] = func
AddNode(ns, name, func) == DictSet(ns, name, func)

\* add_edge: create the list on first use, then append
AddEdge(es, from_node, to_node) ==
    DictSet(es, from_node,
            IF from_node \in DOMAIN es THEN Append(es[from_node], to_node)
                                       ELSE <<to_node>>)

----------------------------------------------------------------------------
(* CampusAgentState and the six stage handlers of SmartCampusAgent *)

\* a number as a reading carries it, and a value that is no number
Num(v) == [num |-> TRUE, v |-> v]
NotNum == [num |-> FALSE, v |-> 0]

\* dict.get(key, default)
GetOr(d, k, default) == IF k \in DOMAIN d THEN d[k] ELSE default

\* [f(x) for x in seq]
Map(seq, F(_)) == [i \in 1..Len(seq) |-> F(seq[i])]

\* thresholds of _detect_sensor_anomaly
Thresholds ==
    [temperature |-> [min |-> 15, max |-> 30],
     humidity    |-> [min |-> 20, max |-> 80],
     energy      |-> [min |-> 0,  max |-> 2500]]

\* _detect_sensor_anomaly raises TypeError: a non-number is compared with min
DetectRaises(data) ==
    /\ GetOr(data, "type", "") \in DOMAIN Thresholds
    /\ ~GetOr(data, "value", Num(0)).num

\* _detect_sensor_anomaly: outside the band of a known type
DetectSensorAnomaly(data) ==
    LET value == GetOr(data, "value", Num(0)).v
        sensor_type == GetOr(data, "type", "")
    IN  /\ sensor_type \in DOMAIN Thresholds
        /\ \/ value < Thresholds[sensor_type].min
           \/ value > Thresholds[sensor_type].max

\* the state process_campus_data builds; a dict is the sequence of its items
InitialState(sensor_data, energy_data) ==
    [sensor_data          |-> sensor_data,
     maintenance_requests |-> <<>>,
     energy_data          |-> energy_data,
     alerts               |-> <<>>,
     recommendations      |-> <<>>,
     current_task         |-> None,
     context              |-> EmptyDict]

\* _monitor_sensors
MonitorSensors(state) ==
    LET hit(item) == DetectSensorAnomaly(item.data)
        anomaly(item) == [sensor_id    |-> item.sensor_id,
                          anomaly_type |-> "threshold_exceeded",
                          severity     |-> "medium"]
        sensor_anomalies == Map(SelectSeq(state.sensor_data, hit), anomaly)
    IN  IF \E i \in 1..Len(state.sensor_data) : DetectRaises(state.sensor_data[i].data)
        THEN [raised |-> TRUE, state |-> state]
        ELSE [raised |-> FALSE,
              state |-> [state EXCEPT
                  !.context = DictSet(@, "sensor_anomalies", sensor_anomalies),
                  !.current_task = "monitor_sensors"]]

\* the mock equipment health table of _predict_maintenance
EquipmentHealth ==
    << [id |-> "eq-001", health_score |-> 75, type |-> "hvac"],
       [id |-> "eq-002", health_score |-> 45, type |-> "elevator"],
       [id |-> "eq-003", health_score |-> 90, type |-> "generator"] >>

Max(a, b) == IF a >= b THEN a ELSE b

\* _predict_maintenance
PredictMaintenance(state) ==
    LET weak(equipment) == equipment.health_score < 60
        days(equipment) == Max(1, (equipment.health_score - 20) \div 5)
        prediction(equipment) ==
            [equipment_id       |-> equipment.id,
             days_to_failure    |-> days(equipment),
             recommended_action |-> <<"Schedule preventive maintenance for", equipment.type>>,
             priority           |-> IF days(equipment) <= 7 THEN "high" ELSE "medium"]
        maintenance_predictions == Map(SelectSeq(EquipmentHealth, weak), prediction)
    IN  [raised |-> FALSE,
         state |-> [state EXCEPT
             !.context = DictSet(@, "maintenance_predictions", maintenance_predictions),
             !.current_task = "predict_maintenance"]]

\* _optimize_energy; savings are kept exact: 15% and 15% of 15% as numerators
OptimizeEnergy(state) ==
    LET consumption(item) == GetOr(item.data, "current_consumption", Num(1000))
        high(item) == consumption(item).v > 1200
        optimization(item) ==
            [building_id                   |-> item.building_id,
             current_consumption           |-> consumption(item).v,
             potential_savings_x100        |-> consumption(item).v * 15,
             recommendations               |-> <<"Adjust HVAC temperature setpoints",
                                                 "Implement smart lighting schedules",
                                                 "Optimize equipment runtime">>,
             estimated_cost_savings_x10000 |-> consumption(item).v * 15 * 15]
        energy_optimizations == Map(SelectSeq(state.energy_data, high), optimization)
    IN  IF \E i \in 1..Len(state.energy_data) : ~consumption(state.energy_data[i]).num
        THEN [raised |-> TRUE, state |-> state]
        ELSE [raised |-> FALSE,
              state |-> [state EXCEPT
                  !.context = DictSet(@, "energy_optimizations", energy_optimizations),
                  !.current_task = "optimize_energy"]]

\* a slip in the alert generator: the numbering starts again for the predictions
GenerateAlertsRenumbered(state) ==
    LET anomalies == GetOr(state.context, "sensor_anomalies", <<>>)
        predictions == GetOr(state.context, "maintenance_predictions", <<>>)
        from_anomalies ==
            [i \in 1..Len(anomalies) |->
                [id       |-> <<"alert", i>>,
                 type     |-> "sensor_anomaly",
                 severity |-> anomalies[i].severity,
                 message  |-> <<"Sensor", anomalies[i].sensor_id>>,
                 actions  |-> <<"Investigate sensor", "Check equipment status">>]]
        from_predictions ==
            [j \in 1..Len(predictions) |->
                [id       |-> <<"alert", j>>,
                 type     |-> "maintenance_prediction",
                 severity |-> IF predictions[j].priority = "high"
                              THEN "critical" ELSE "warning",
                 message  |-> <<"Equipment", predictions[j].equipment_id>>,
                 actions  |-> <<predictions[j].recommended_action>>]]
    IN  [raised |-> FALSE,
         state |-> [state EXCEPT
             !.alerts = @ \o from_anomalies \o from_predictions,
             !.current_task = "generate_alerts"]]

\* _generate_alerts: ids count the local list, which starts empty in every call
GenerateAlerts(state) ==
    LET anomalies == GetOr(state.context, "sensor_anomalies", <<>>)
        predictions == GetOr(state.context, "maintenance_predictions", <<>>)
        from_anomalies ==
            [i \in 1..Len(anomalies) |->
                [id       |-> <<"alert", i>>,
                 type     |-> "sensor_anomaly",
                 severity |-> anomalies[i].severity,
                 message  |-> <<"Sensor", anomalies[i].sensor_id>>,
                 actions  |-> <<"Investigate sensor", "Check equipment status">>]]
        from_predictions ==
            [j \in 1..Len(predictions) |->
                [id       |-> <<"alert", Len(anomalies) + j>>,
                 type     |-> "maintenance_prediction",
                 severity |-> IF predictions[j].priority = "high"
                              THEN "critical" ELSE "warning",
                 message  |-> <<"Equipment", predictions[j].equipment_id>>,
                 actions  |-> <<predictions[j].recommended_action>>]]
    IN  [raised |-> FALSE,
         state |-> [state EXCEPT
             !.alerts = @ \o from_anomalies \o from_predictions,
             !.current_task = "generate_alerts"]]

\* _generate_recommendations
GenerateRecommendations(state) ==
    LET optimizations == GetOr(state.context, "energy_optimizations", <<>>)
        predictions == GetOr(state.context, "maintenance_predictions", <<>>)
        from_energy ==
            [i \in 1..Len(optimizations) |->
                [id          |-> <<"rec", i>>,
                 type        |-> "energy_optimization",
                 description |-> <<"building", optimizations[i].building_id>>,
                 impact      |-> "high",
                 estimated_savings_x10000 |-> optimizations[i].estimated_cost_savings_x10000,
                 actions     |-> optimizations[i].recommendations,
                 priority    |-> 8]]
        from_predictions ==
            [j \in 1..Len(predictions) |->
                [id          |-> <<"rec", Len(optimizations) + j>>,
                 type        |-> "maintenance",
                 description |-> <<"equipment", predictions[j].equipment_id>>,
                 impact      |-> IF predictions[j].priority = "high"
                                 THEN "critical" ELSE "medium",
                 actions     |-> <<predictions[j].recommended_action>>,
                 priority    |-> IF predictions[j].priority = "high" THEN 9 ELSE 6]]
    IN  [raised |-> FALSE,
         state |-> [state EXCEPT
             !.recommendations = @ \o from_energy \o from_predictions,
             !.current_task = "provide_recommendations"]]

\* a slip in the decision maker: the type of a recommendation is not looked at
MakeDecisionsAnyType(state) ==
    LET low_risk(rec) == rec.impact # "critical"
        approve(rec) == [recommendation_id |-> rec.id,
                         decision          |-> "auto_approved",
                         reason            |-> "Low risk energy optimization"]
        critical(alert) == alert.severity = "critical"
        alert_id(alert) == alert.id
        critical_alerts == SelectSeq(state.alerts, critical)
        approved == Map(SelectSeq(state.recommendations, low_risk), approve)
        review == IF critical_alerts # <<>>
                  THEN << [type      |-> "human_review_required",
                           reason    |-> Len(critical_alerts),
                           alert_ids |-> Map(critical_alerts, alert_id)] >>
                  ELSE <<>>
    IN  [raised |-> FALSE,
         state |-> [state EXCEPT !.context = DictSet(@, "decisions", approved \o review)]]

\* _make_decisions; current_task is not assigned here
MakeDecisions(state) ==
    LET low_risk(rec) == rec.type = "energy_optimization" /\ rec.impact # "critical"
        approve(rec) == [recommendation_id |-> rec.id,
                         decision          |-> "auto_approved",
                         reason            |-> "Low risk energy optimization"]
        critical(alert) == alert.severity = "critical"
        alert_id(alert) == alert.id
        critical_alerts == SelectSeq(state.alerts, critical)
        approved == Map(SelectSeq(state.recommendations, low_risk), approve)
        review == IF critical_alerts # <<>>
                  THEN << [type      |-> "human_review_required",
                           reason    |-> Len(critical_alerts),
                           alert_ids |-> Map(critical_alerts, alert_id)] >>
                  ELSE <<>>
    IN  [raised |-> FALSE,
         state |-> [state EXCEPT !.context = DictSet(@, "decisions", approved \o review)]]

----------------------------------------------------------------------------
(* CompiledGraph.ainvoke *)

\* the frame of a call that has not been made yet; result holds what the
\* call returned to its caller, once it has
IdleFrame == [pc |-> "idle", current_node |-> None, state |-> <<>>,
              initial |-> <<>>, calls |-> <<>>, result |-> <<>>]

\* ainvoke entered: current_node = self.entry_point, state = the argument
EnterFrame(st) == [pc |-> "loop", current_node |-> compiled, state |-> st,
                   initial |-> st, calls |-> <<>>, result |-> <<>>]

\* a handler of a caller-built graph: it marks the state it is given and
\* returns it, or raises before or after having marked it
AbstractOutcomes(func, st) ==
    { [raised |-> FALSE, state |-> Append(st, func)],
      [raised |-> TRUE,  state |-> st],
      [raised |-> TRUE,  state |-> Append(st, func)] }

\* await self.nodes[current_node](state): what the registered callable does
Outcomes(func, st) ==
    CASE func = "_monitor_sensors"           -> {MonitorSensors(st)}
      [] func = "_predict_maintenance"       -> {PredictMaintenance(st)}
      [] func = "_optimize_energy"           -> {OptimizeEnergy(st)}
      [] func = "_generate_alerts"           -> {GenerateAlerts(st)}
      [] func = "_generate_recommendations"  -> {GenerateRecommendations(st)}
      [] func = "_make_decisions"            -> {MakeDecisions(st)}
      [] OTHER                               -> AbstractOutcomes(func, st)

\* `while current_node:` and `if current_node in self.nodes:` both pass
LoopRuns(ns, cur) == Truthy(cur) /\ cur \in DOMAIN ns

\* a slip in the routing: the edge recorded last is followed
RouteLast(es, cur) ==
    IF cur \in DOMAIN es
    THEN [pc |-> "loop", current_node |-> es[cur][Len(es[cur])]]
    ELSE [pc |-> "returned", current_node |-> cur]

\* the routing after a handler returned: edges[current_node][0], else break
Route(es, cur) ==
    IF cur \in DOMAIN es
    THEN [pc |-> "loop", current_node |-> es[cur][1]]
    ELSE [pc |-> "returned", current_node |-> cur]

\* the record of one handler invocation (history kept in the frame)
Call(f, out) == [node |-> f.current_node, func |-> nodes[f.current_node],
                 raised |-> out.raised]

\* a slip: the state object is restored to what ainvoke was given
AfterRaiseRollback(f, out) ==
    [f EXCEPT !.pc = "raised", !.state = f.initial,
              !.calls = Append(@, Call(f, out))]

\* the handler raised: nothing in ainvoke catches it, the frame is left, the
\* state object keeps whatever was done to it
AfterRaise(f, out) ==
    [f EXCEPT !.pc = "raised", !.state = out.state,
              !.calls = Append(@, Call(f, out))]

\* the handler returned: state = its result, then the routing
AfterReturn(f, out) ==
    [f EXCEPT !.pc = Route(edges, f.current_node).pc,
              !.current_node = Route(edges, f.current_node).current_node,
              !.state = out.state,
              !.calls = Append(@, Call(f, out))]

\* one pass of the while loop that reaches a handler
IterFrame(f, out) == IF out.raised THEN AfterRaise(f, out) ELSE AfterReturn(f, out)

\* the while loop ends without calling a handler: return state
ExitFrame(f) == [f EXCEPT !.pc = "returned"]

----------------------------------------------------------------------------
(* The executor on a caller-built graph: wire it, compile it, run it once *)

\* the caller wires the graph, before or after compile(), and then runs it
NoRunEntered == \A r \in DOMAIN runs : runs[r].pc = "idle"

\* number of add_edge calls recorded in the dict
EdgeCount(es) ==
    Cardinality(UNION { { <<n, i>> : i \in 1..Len(es[n]) } : n \in DOMAIN es })

add_node ==
    /\ NoRunEntered
    /\ \E name \in Names, func \in Handlers :
          nodes' = AddNode(nodes, name, func)
    /\ UNCHANGED <<edges, entry_point, compiled, first_edge, runs, state_history, engineVars>>

add_edge ==
    /\ NoRunEntered
    /\ EdgeCount(edges) < MaxConnects
    /\ \E from_node \in Names, to_node \in Targets :
          /\ edges' = AddEdge(edges, from_node, to_node)
          /\ first_edge' = IF from_node \in DOMAIN first_edge THEN first_edge
                           ELSE DictSet(first_edge, from_node, to_node)
    /\ UNCHANGED <<nodes, entry_point, compiled, runs, state_history, engineVars>>

set_entry_point ==
    /\ NoRunEntered
    /\ \E node \in Names : entry_point' = node
    /\ UNCHANGED <<nodes, edges, compiled, first_edge, runs, state_history, engineVars>>

\* compile: the CompiledGraph holds the same two dicts and a copy of entry_point
compile ==
    /\ compiled = NotCompiled
    /\ compiled' = entry_point
    /\ UNCHANGED <<nodes, edges, entry_point, first_edge, runs, state_history, engineVars>>

ainvoke_enter ==
    /\ compiled # NotCompiled
    /\ runs[1].pc = "idle"
    /\ runs' = [runs EXCEPT ![1] = EnterFrame(<<>>)]
    /\ UNCHANGED <<nodes, edges, entry_point, compiled, first_edge, state_history, engineVars>>

ainvoke_iter ==
    /\ runs[1].pc = "loop"
    /\ LoopRuns(nodes, runs[1].current_node)
    /\ Len(runs[1].calls) < MaxSteps
    /\ \E out \in Outcomes(nodes[runs[1].current_node], runs[1].state) :
          runs' = [runs EXCEPT ![1] = IterFrame(runs[1], out)]
    /\ UNCHANGED <<nodes, edges, entry_point, compiled, first_edge, state_history, engineVars>>

ainvoke_exit ==
    /\ runs[1].pc = "loop"
    /\ ~LoopRuns(nodes, runs[1].current_node)
    /\ runs' = [runs EXCEPT ![1] = ExitFrame(runs[1])]
    /\ UNCHANGED <<nodes, edges, entry_point, compiled, first_edge, state_history, engineVars>>

Init ==
    /\ nodes = EmptyDict
    /\ edges = EmptyDict
    /\ entry_point = None
    /\ compiled = NotCompiled
    /\ first_edge = EmptyDict
    /\ runs = [r \in {1} |-> IdleFrame]
    /\ state_history = <<>>
    /\ engine = NewEngine
    /\ last = NoCall
    /\ batch = IdleBatch
    /\ schedule = NoCall

Next ==
    \/ add_node
    \/ add_edge
    \/ set_entry_point
    \/ compile
    \/ ainvoke_enter
    \/ ainvoke_iter
    \/ ainvoke_exit

Spec == Init /\ [][Next]_vars

----------------------------------------------------------------------------
(* SmartCampusAgent: __init__ builds the graph; process_campus_data runs it *)

\* the six add_node calls of _build_agent_graph, in order
AgentNodes ==
    LET n1 == AddNode(EmptyDict, "sensor_monitor", "_monitor_sensors")
        n2 == AddNode(n1, "maintenance_predictor", "_predict_maintenance")
        n3 == AddNode(n2, "energy_optimizer", "_optimize_energy")
        n4 == AddNode(n3, "alert_generator", "_generate_alerts")
        n5 == AddNode(n4, "recommendation_engine", "_generate_recommendations")
    IN  AddNode(n5, "decision_maker", "_make_decisions")

\* a slip in the wiring: the alert generator is connected past the
\* recommendation engine
AgentEdgesMiswired ==
    LET e1 == AddEdge(EmptyDict, "sensor_monitor", "maintenance_predictor")
        e2 == AddEdge(e1, "maintenance_predictor", "energy_optimizer")
        e3 == AddEdge(e2, "energy_optimizer", "alert_generator")
        e4 == AddEdge(e3, "alert_generator", "decision_maker")
        e5 == AddEdge(e4, "recommendation_engine", "decision_maker")
    IN  AddEdge(e5, "decision_maker", END)

\* the six add_edge calls of _build_agent_graph, in order
AgentEdges ==
    LET e1 == AddEdge(EmptyDict, "sensor_monitor", "maintenance_predictor")
        e2 == AddEdge(e1, "maintenance_predictor", "energy_optimizer")
        e3 == AddEdge(e2, "energy_optimizer", "alert_generator")
        e4 == AddEdge(e3, "alert_generator", "recommendation_engine")
        e5 == AddEdge(e4, "recommendation_engine", "decision_maker")
    IN  AddEdge(e5, "decision_maker", END)

\* set_entry_point("sensor_monitor")
AgentEntryPoint == "sensor_monitor"

\* sensor readings a caller passes: the campus sample, two readings out of
\* band, a type without a band, and a reading whose value is no number
SensorInputs ==
    { << >>,
      << [sensor_id |-> "sensor-001",
          data |-> [type |-> "temperature", value |-> Num(35)]],
         [sensor_id |-> "sensor-002",
          data |-> [type |-> "humidity", value |-> Num(45)]] >>,
      << [sensor_id |-> "sensor-001",
          data |-> [type |-> "temperature", value |-> Num(10)]],
         [sensor_id |-> "sensor-003",
          data |-> [type |-> "energy", value |-> Num(2600)]] >>,
      << [sensor_id |-> "sensor-004",
          data |-> [type |-> "co2", value |-> NotNum]] >>,
      << [sensor_id |-> "sensor-001",
          data |-> [type |-> "temperature", value |-> NotNum]] >> }

\* energy readings a caller passes: the campus sample, a building without a
\* consumption figure, and a figure that is no number
EnergyInputs ==
    { << >>,
      << [building_id |-> "bld-001",
          data |-> [current_consumption |-> Num(1350), baseline |-> Num(1200)]],
         [building_id |-> "bld-002",
          data |-> [current_consumption |-> Num(980), baseline |-> Num(1000)]] >>,
      << [building_id |-> "bld-003", data |-> [baseline |-> Num(1000)]] >>,
      << [building_id |-> "bld-001",
          data |-> [current_consumption |-> NotNum, baseline |-> Num(1200)]] >> }

\* a slip: the history is rebound to a new list holding the last state only
HistoryAppendLost(history, entry) == <<entry>>

\* self.state_history.append(final_state); obj names the state object
HistoryAppend(history, entry) == Append(history, entry)

\* a slip: a finally-clause stores the state of a failed run as well
ReturnsAlways(f) == f.pc \in {"returned", "raised"}

\* ainvoke returned to process_campus_data
Returns(f) == f.pc = "returned"

\* the mapping process_campus_data returns
ResultOf(final_state) ==
    [alerts          |-> final_state.alerts,
     recommendations |-> final_state.recommendations,
     context         |-> final_state.context]

\* process_campus_data up to its await: initial_state, then ainvoke is entered
process_campus_data(r) ==
    /\ runs[r].pc = "idle"
    /\ \E sensor_data \in SensorInputs, energy_data \in EnergyInputs :
          runs' = [runs EXCEPT ![r] = EnterFrame(InitialState(sensor_data, energy_data))]
    /\ UNCHANGED <<nodes, edges, entry_point, compiled, first_edge, state_history, engineVars>>

\* one pass of ainvoke's loop in run r that awaits a stage handler
stage_step(r) ==
    /\ runs[r].pc = "loop"
    /\ LoopRuns(nodes, runs[r].current_node)
    /\ \E out \in Outcomes(nodes[runs[r].current_node], runs[r].state) :
          runs' = [runs EXCEPT ![r] = IterFrame(runs[r], out)]
    /\ UNCHANGED <<nodes, edges, entry_point, compiled, first_edge, state_history, engineVars>>

\* ainvoke's loop of run r ends at a name that is falsy or not registered
stage_exit(r) ==
    /\ runs[r].pc = "loop"
    /\ ~LoopRuns(nodes, runs[r].current_node)
    /\ runs' = [runs EXCEPT ![r] = ExitFrame(runs[r])]
    /\ UNCHANGED <<nodes, edges, entry_point, compiled, first_edge, state_history, engineVars>>

\* process_campus_data after its await: the append and the returned mapping
process_return(r) ==
    /\ Returns(runs[r])
    /\ state_history' = HistoryAppend(state_history, [obj |-> r, state |-> runs[r].state])
    /\ runs' = [runs EXCEPT ![r].pc = "done", ![r].result = <<ResultOf(runs[r].state)>>]
    /\ UNCHANGED <<nodes, edges, entry_point, compiled, first_edge, engineVars>>

InitCampus ==
    /\ nodes = AgentNodes
    /\ edges = AgentEdges
    /\ entry_point = AgentEntryPoint
    /\ compiled = AgentEntryPoint
    /\ first_edge = [n \in DOMAIN edges |-> edges[n][1]]
    /\ runs = [r \in 1..NumRuns |-> IdleFrame]
    /\ state_history = <<>>
    /\ engine = NewEngine
    /\ last = NoCall
    /\ batch = IdleBatch
    /\ schedule = NoCall

NextCampus ==
    \E r \in 1..NumRuns :
        \/ process_campus_data(r)
        \/ stage_step(r)
        \/ stage_exit(r)
        \/ process_return(r)

SpecCampus == InitCampus /\ [][NextCampus]_vars

\* one process_campus_data call on a fresh agent
InitPipeline ==
    /\ nodes = AgentNodes
    /\ edges = AgentEdges
    /\ entry_point = AgentEntryPoint
    /\ compiled = AgentEntryPoint
    /\ first_edge = [n \in DOMAIN edges |-> edges[n][1]]
    /\ runs = [r \in {1} |-> IdleFrame]
    /\ state_history = <<>>
    /\ engine = NewEngine
    /\ last = NoCall
    /\ batch = IdleBatch
    /\ schedule = NoCall

NextPipeline ==
    \/ process_campus_data(1)
    \/ stage_step(1)
    \/ stage_exit(1)
    \/ process_return(1)

\* asyncio runs a task that is ready: a call that was made goes on to its end
SpecPipeline ==
    /\ InitPipeline
    /\ [][NextPipeline]_vars
    /\ WF_vars(stage_step(1) \/ stage_exit(1) \/ process_return(1))

----------------------------------------------------------------------------
(* PredictiveMaintenanceEngine: the scoring functions *)

\* a slip in the mock regressor: the whole unit interval is drawn from
RandomForestPredictUnit == 0..PScale

\* RandomForestRegressor.predict: np.random.uniform(0.1, 0.9)
RandomForestPredict == { p \in 0..PScale : PScale <= 10 * p /\ 10 * p <= 9 * PScale }

\* IsolationForest.predict: -1 (anomaly) or 1, at random
IsolationForestPredict == {-1, 1}

\* the unit of a weighted sum: _calculate_failure_probability returns
\* CalculateFailureProbability / ProbUnit. Twentieths for the weights (0.3, 0.25,
\* 0.2, 0.15, 0.1), and 2^4 * 5^5 * 73 for the divisors 20, 50000, 50, 10 and 365
\* of fields kept in tenths
ProbUnit == 20 * (50000 * 73)

Min(a, b) == IF a <= b THEN a ELSE b

\* _calculate_failure_probability, exactly, in units of 1 / ProbUnit
CalculateFailureProbability(equipment) ==
    LET one == 50000 * 73
        age_factor == Min(equipment.age_years_x10.v * (one \div 200), one)
        usage_factor == Min(equipment.usage_hours.v * (one \div 50000), one)
        temp_factor == Max(0, (equipment.temperature_x10.v - 250) * (one \div 500))
        vibration_factor == Min(equipment.vibration_x10.v * (one \div 100), one)
        maintenance_factor == Min(equipment.last_maintenance_days.v * (one \div 365), one)
        failure_prob == age_factor * 6 + usage_factor * 5 + temp_factor * 4
                           + vibration_factor * 3 + maintenance_factor * 2
    IN  Min(Max(failure_prob, ProbUnit \div 100), 99 * (ProbUnit \div 100))

\* type_multipliers of _calculate_days_to_failure, in tenths; 1.0 by default
TypeMultipliersX10 ==
    [hvac |-> 12, elevator |-> 8, generator |-> 15, pump |-> 10, lighting |-> 20]

\* a slip in the estimate: the base days are rounded to the nearest day
CalculateDaysToFailureRounded(failure_prob, equipment_type) ==
    LET base_days == (2 * (PScale - failure_prob) * 365 + PScale) \div (2 * PScale)
        multiplier == GetOr(TypeMultipliersX10, equipment_type, 10)
    IN  Max(1, (base_days * multiplier) \div 10)

\* _calculate_days_to_failure: int() truncates, here of non-negative numbers
CalculateDaysToFailure(failure_prob, equipment_type) ==
    LET base_days == ((PScale - failure_prob) * 365) \div PScale
        multiplier == GetOr(TypeMultipliersX10, equipment_type, 10)
    IN  Max(1, (base_days * multiplier) \div 10)

\* a slip in the rule: critical only from three days down, as the schedule has it
DetermineRiskLevelThreeDays(failure_prob, days_to_failure, is_anomaly) ==
    IF is_anomaly \/ 10 * failure_prob > 8 * PScale \/ days_to_failure <= 3
    THEN "critical"
    ELSE IF 10 * failure_prob > 6 * PScale \/ days_to_failure <= 30
    THEN "high"
    ELSE IF 10 * failure_prob > 4 * PScale \/ days_to_failure <= 90
    THEN "medium"
    ELSE "low"

\* a slip in the rule: the tests for high and medium change places
DetermineRiskLevelSwapped(failure_prob, days_to_failure, is_anomaly) ==
    IF is_anomaly \/ 10 * failure_prob > 8 * PScale \/ days_to_failure <= 7
    THEN "critical"
    ELSE IF 10 * failure_prob > 6 * PScale \/ days_to_failure <= 30
    THEN "medium"
    ELSE IF 10 * failure_prob > 4 * PScale \/ days_to_failure <= 90
    THEN "high"
    ELSE "low"

\* _determine_risk_level
DetermineRiskLevel(failure_prob, days_to_failure, is_anomaly) ==
    IF is_anomaly \/ 10 * failure_prob > 8 * PScale \/ days_to_failure <= 7
    THEN "critical"
    ELSE IF 10 * failure_prob > 6 * PScale \/ days_to_failure <= 30
    THEN "high"
    ELSE IF 10 * failure_prob > 4 * PScale \/ days_to_failure <= 90
    THEN "medium"
    ELSE "low"

\* _identify_factors; tenths of a year, of a degree and of a mm/s
IdentifyFactors(equipment, is_anomaly) ==
    LET factors ==
            (IF equipment.age_years_x10.v > 100 THEN <<"Equipment age">> ELSE <<>>)
         \o (IF equipment.usage_hours.v > 30000 THEN <<"High usage hours">> ELSE <<>>)
         \o (IF equipment.temperature_x10.v > 300 THEN <<"Elevated temperature">> ELSE <<>>)
         \o (IF equipment.vibration_x10.v > 50 THEN <<"Excessive vibration">> ELSE <<>>)
         \o (IF equipment.last_maintenance_days.v > 180
             THEN <<"Overdue maintenance">> ELSE <<>>)
         \o (IF is_anomaly THEN <<"Anomalous sensor readings">> ELSE <<>>)
         \o (IF equipment.failure_history_len > 2
             THEN <<"Previous failure history">> ELSE <<>>)
    IN  IF factors # <<>> THEN factors ELSE <<"Normal operating conditions">>

\* an EquipmentData whose fields let every step of predict_maintenance through:
\* the steps after the two predict calls divide and compare these five
ScoringCompletes(equipment) ==
    /\ equipment.age_years_x10.num
    /\ equipment.usage_hours.num
    /\ equipment.temperature_x10.num
    /\ equipment.vibration_x10.num
    /\ equipment.last_maintenance_days.num

\* train_models: a list with an item the loop cannot take raises before
\* either model is fitted; otherwise both mocks are fitted and is_trained set
TrainModels(eng, historical_data) ==
    IF \A i \in DOMAIN historical_data :
          historical_data[i].is_record /\ ScoringCompletes(historical_data[i])
    THEN [eng EXCEPT !.is_trained = TRUE, !.failure_model_fitted = TRUE,
                     !.anomaly_detector_fitted = TRUE]
    ELSE eng

\* _mock_training: train_models on a hundred synthetic records, all well
\* formed; mock_trained is history: this engine has bootstrapped itself
MockTraining(eng) == [TrainModels(eng, <<>>) EXCEPT !.mock_trained = TRUE]

\* a slip at the head of predict_maintenance: no bootstrap
EnsureTrainedSkipped(eng) == eng

\* the engine after the first lines of predict_maintenance
EnsureTrained(eng) == IF eng.is_trained THEN eng ELSE MockTraining(eng)

\* the MaintenancePrediction predict_maintenance builds
Prediction(equipment, failure_prob, anomaly_score) ==
    LET is_anomaly == anomaly_score = -1
        days_to_failure == CalculateDaysToFailure(failure_prob, equipment.equipment_type)
    IN  [kind                |-> "prediction",
         equipment_id        |-> equipment.equipment_id,
         failure_probability |-> failure_prob,
         days_to_failure     |-> days_to_failure,
         risk_level          |-> DetermineRiskLevel(failure_prob, days_to_failure, is_anomaly),
         factors             |-> IdentifyFactors(equipment, is_anomaly)]

Raised(error) == [kind |-> "raised", error |-> error]

\* predict_maintenance on an engine that is trained: what it returns or raises
PredictMaintenanceOutcomes(eng, equipment) ==
    IF ~equipment.is_record
    THEN {Raised("AttributeError")}
    ELSE IF ~eng.failure_model_fitted \/ ~eng.anomaly_detector_fitted
    THEN {Raised("ValueError")}
    ELSE IF ~ScoringCompletes(equipment)
    THEN {Raised("TypeError")}
    ELSE { Prediction(equipment, failure_prob, anomaly_score) :
              failure_prob \in RandomForestPredict,
              anomaly_score \in IsolationForestPredict }

----------------------------------------------------------------------------
(* PredictiveMaintenanceEngine: train, score, score a batch, schedule *)

\* an EquipmentData; floats are kept in tenths
Equipment(id, type, age_x10, usage, temp_x10, vib_x10, maint_days, n_maint, n_fail) ==
    [is_record             |-> TRUE,
     equipment_id          |-> id,
     equipment_type        |-> type,
     age_years_x10         |-> age_x10,
     usage_hours           |-> usage,
     temperature_x10       |-> temp_x10,
     vibration_x10         |-> vib_x10,
     last_maintenance_days |-> maint_days,
     maintenance_history_len |-> n_maint,
     failure_history_len   |-> n_fail]

\* the two records of the engine's own example, and one of a type without
\* a multiplier
Hvac001 == Equipment("eq-001", "hvac", Num(85), Num(35000), Num(325), Num(32),
                     Num(120), 1, 0)
Elevator002 == Equipment("eq-002", "elevator", Num(120), Num(45000), Num(280), Num(68),
                         Num(45), 1, 1)
Conveyor003 == Equipment("eq-003", "conveyor", Num(10), Num(500), Num(200), Num(5),
                         Num(10), 0, 0)
\* a record whose age was never filled in (None): the cost estimate raises
Pump004 == Equipment("eq-004", "pump", NotNum, Num(20000), Num(260), Num(20),
                     Num(200), 0, 3)
\* a record whose weighted sum of condition factors is 0.55 exactly
Generator005 == Equipment("eq-005", "generator", Num(100), Num(25000), Num(500), Num(50),
                          Num(365), 0, 0)
\* something in the list that is no EquipmentData at all (None, a dict)
NotARecord == [is_record |-> FALSE]

EquipmentRecords == {Hvac001, Elevator002, Conveyor003, Pump004, Generator005}
EquipmentItems == EquipmentRecords \cup {NotARecord}

\* historical data a caller may train on: none, the example's records, and
\* lists with an item that makes train_models raise
TrainingSets == { <<>>, <<Hvac001, Elevator002>>, <<Hvac001, Pump004>>, <<NotARecord>> }

\* sequences over S of length at most n
RECURSIVE SeqsUpTo(_, _)
SeqsUpTo(S, n) ==
    IF n = 0 THEN {<<>>}
    ELSE LET shorter == SeqsUpTo(S, n - 1)
         IN  shorter \cup { Append(q, x) : q \in shorter, x \in S }

train_models ==
    /\ batch.pc # "loop"
    /\ \E historical_data \in TrainingSets :
          engine' = TrainModels(engine, historical_data)
    /\ UNCHANGED <<agentVars, last, batch, schedule>>

\* a single scoring call; the caller of this behaviour scores one by one
predict_maintenance ==
    /\ batch.pc = "idle"
    /\ \E equipment \in EquipmentItems :
          /\ engine' = EnsureTrained(engine)
          /\ last' \in PredictMaintenanceOutcomes(engine', equipment)
    /\ UNCHANGED <<agentVars, batch, schedule>>

\* batch_predict is entered; the caller of this behaviour scores in a batch
batch_predict ==
    /\ batch.pc = "idle"
    /\ last = NoCall
    /\ \E equipment_list \in SeqsUpTo(EquipmentItems, MaxBatch) :
          batch' = [pc |-> "loop", equipment_list |-> equipment_list, i |-> 1,
                    predictions |-> <<>>, failed |-> {}]
    /\ UNCHANGED <<agentVars, engine, last, schedule>>

\* a slip: no try/except around the scoring call
BatchAfterRaiseAbort(b) == [b EXCEPT !.pc = "raised", !.failed = @ \cup {b.i}]

\* the except clause: the message names equipment.equipment_id, which raises
\* in its turn when the item has no such attribute
BatchAfterRaise(b) ==
    IF b.equipment_list[b.i].is_record
    THEN [b EXCEPT !.i = @ + 1, !.failed = @ \cup {b.i}]
    ELSE [b EXCEPT !.pc = "raised", !.failed = @ \cup {b.i}]

\* one pass of the for loop of batch_predict
batch_item ==
    /\ batch.pc = "loop"
    /\ batch.i <= Len(batch.equipment_list)
    /\ engine' = EnsureTrained(engine)
    /\ \E out \in PredictMaintenanceOutcomes(engine', batch.equipment_list[batch.i]) :
          batch' = IF out.kind = "raised"
                   THEN BatchAfterRaise(batch)
                   ELSE [batch EXCEPT !.i = @ + 1, !.predictions = Append(@, out)]
    /\ UNCHANGED <<agentVars, last, schedule>>

\* the for loop is over: return predictions
batch_return ==
    /\ batch.pc = "loop"
    /\ batch.i > Len(batch.equipment_list)
    /\ batch' = [batch EXCEPT !.pc = "returned"]
    /\ UNCHANGED <<agentVars, engine, last, schedule>>

InitEngine ==
    /\ nodes = EmptyDict
    /\ edges = EmptyDict
    /\ entry_point = None
    /\ compiled = NotCompiled
    /\ first_edge = EmptyDict
    /\ runs = [r \in {1} |-> IdleFrame]
    /\ state_history = <<>>
    /\ engine = NewEngine
    /\ last = NoCall
    /\ batch = IdleBatch
    /\ schedule = NoCall

NextEngine ==
    \/ train_models
    \/ predict_maintenance
    \/ batch_predict
    \/ batch_item
    \/ batch_return

SpecEngine == InitEngine /\ [][NextEngine]_vars

----------------------------------------------------------------------------
(* The risk rule on its own: any probability, flag and days *)

EquipmentTypes == {"hvac", "elevator", "generator", "pump", "lighting", "conveyor"}

\* days a caller may pass to _determine_risk_level, around its thresholds
DaysSamples == {1, 7, 8, 30, 31, 90, 91}

\* _calculate_days_to_failure, then _determine_risk_level on its result
determine_risk_level_derived ==
    /\ \E failure_prob \in 0..PScale, equipment_type \in EquipmentTypes,
          is_anomaly \in BOOLEAN :
          LET days_to_failure == CalculateDaysToFailure(failure_prob, equipment_type)
          IN  last' = [kind |-> "risk", derived |-> TRUE,
                       failure_prob |-> failure_prob,
                       equipment_type |-> equipment_type,
                       is_anomaly |-> is_anomaly,
                       days_to_failure |-> days_to_failure,
                       risk_level |-> DetermineRiskLevel(failure_prob, days_to_failure,
                                                         is_anomaly)]
    /\ UNCHANGED <<agentVars, engine, batch, schedule>>

\* _determine_risk_level on days the caller chose
determine_risk_level ==
    /\ \E failure_prob \in 0..PScale, days_to_failure \in DaysSamples,
          is_anomaly \in BOOLEAN :
          last' = [kind |-> "risk", derived |-> FALSE,
                   failure_prob |-> failure_prob,
                   equipment_type |-> "",
                   is_anomaly |-> is_anomaly,
                   days_to_failure |-> days_to_failure,
                   risk_level |-> DetermineRiskLevel(failure_prob, days_to_failure,
                                                     is_anomaly)]
    /\ UNCHANGED <<agentVars, engine, batch, schedule>>

NextRisk ==
    \/ determine_risk_level_derived
    \/ determine_risk_level

SpecRisk == InitEngine /\ [][NextRisk]_vars

----------------------------------------------------------------------------
(* generate_maintenance_schedule on any list of predictions *)

RiskLevels == {"low", "medium", "high", "critical"}

\* predictions a caller may pass: every risk level with days around the
\* thresholds of the schedule
PredictionSamples ==
    { [kind |-> "prediction", risk_level |-> risk_level,
       days_to_failure |-> days_to_failure] :
         risk_level \in RiskLevels, days_to_failure \in {3, 4, 7, 8, 30, 31} }

EmptySchedule == [immediate |-> <<>>, this_week |-> <<>>, this_month |-> <<>>,
                  next_quarter |-> <<>>]

\* a slip in the chain: the risk level is not looked at
BucketByDaysOnly(prediction) ==
    IF prediction.days_to_failure <= 3 THEN "immediate"
    ELSE IF prediction.days_to_failure <= 7 THEN "this_week"
    ELSE IF prediction.days_to_failure <= 30 THEN "this_month"
    ELSE "next_quarter"

\* the if/elif chain of generate_maintenance_schedule
Bucket(prediction) ==
    IF prediction.risk_level = "critical" \/ prediction.days_to_failure <= 3
    THEN "immediate"
    ELSE IF prediction.days_to_failure <= 7 THEN "this_week"
    ELSE IF prediction.days_to_failure <= 30 THEN "this_month"
    ELSE "next_quarter"

\* the for loop of generate_maintenance_schedule, from prediction i on
RECURSIVE ScheduleLoop(_, _, _)
ScheduleLoop(sched, predictions, i) ==
    IF i > Len(predictions) THEN sched
    ELSE ScheduleLoop([sched EXCEPT ![Bucket(predictions[i])] = Append(@, predictions[i])],
                      predictions, i + 1)

GenerateMaintenanceSchedule(predictions) == ScheduleLoop(EmptySchedule, predictions, 1)

generate_maintenance_schedule ==
    /\ schedule = NoCall
    /\ \E predictions \in SeqsUpTo(PredictionSamples, MaxPreds) :
          schedule' = [kind |-> "schedule", predictions |-> predictions,
                       buckets |-> GenerateMaintenanceSchedule(predictions)]
    /\ UNCHANGED <<agentVars, engine, last, batch>>

NextSchedule == generate_maintenance_schedule

SpecSchedule == InitEngine /\ [][NextSchedule]_vars

----------------------------------------------------------------------------
(* generate_maintenance_schedule on predictions the risk rule has rated *)

\* days around the thresholds of the risk rule and of the schedule
ScoredDays == {1, 3, 4, 7, 8, 30, 31, 91}

\* predictions as predict_maintenance builds them: whatever the probability,
\* the days and the anomaly flag, the risk level is what _determine_risk_level
\* makes of them
ScoredSamples ==
    { [kind |-> "prediction",
       risk_level |-> DetermineRiskLevel(failure_prob, days_to_failure, is_anomaly),
       days_to_failure |-> days_to_failure] :
         failure_prob \in 0..PScale, days_to_failure \in ScoredDays,
         is_anomaly \in BOOLEAN }

\* generate_maintenance_schedule on a list of such predictions
schedule_scored ==
    /\ schedule = NoCall
    /\ \E predictions \in SeqsUpTo(ScoredSamples, MaxPreds) :
          schedule' = [kind |-> "schedule", predictions |-> predictions,
                       buckets |-> GenerateMaintenanceSchedule(predictions)]
    /\ UNCHANGED <<agentVars, engine, last, batch>>

NextScored == schedule_scored

SpecScored == InitEngine /\ [][NextScored]_vars

----------------------------------------------------------------------------
(* The decision maker on its own: any alerts and recommendations *)

\* alerts a state may hold when the stage is entered: the keys the stage reads
AlertSamples ==
    { [id |-> <<"alert", n>>, type |-> "sensor_anomaly", severity |-> severity] :
         n \in 1..2, severity \in {"medium", "warning", "critical"} }

\* recommendations a state may hold when the stage is entered
RecommendationSamples ==
    { [id |-> <<"rec", n>>, type |-> type, impact |-> impact] :
         n \in 1..2, type \in {"energy_optimization", "maintenance"},
         impact \in {"high", "critical"} }

\* _make_decisions on a state the caller built, once in a behaviour
make_decisions ==
    /\ last = NoCall
    /\ \E alerts \in SeqsUpTo(AlertSamples, MaxItems),
          recommendations \in SeqsUpTo(RecommendationSamples, MaxItems) :
          LET state == [InitialState(EmptyDict, EmptyDict) EXCEPT
                           !.alerts = alerts, !.recommendations = recommendations]
          IN  last' = [kind |-> "decisions", state |-> MakeDecisions(state).state]
    /\ UNCHANGED <<agentVars, engine, batch, schedule>>

NextDecide == make_decisions

SpecDecide == InitEngine /\ [][NextDecide]_vars

----------------------------------------------------------------------------
(* Properties of the executor and of the campus pipeline *)

IsPrefix(a, b) == Len(a) <= Len(b) /\ \A i \in 1..Len(a) : a[i] = b[i]

Last(seq) == seq[Len(seq)]

\* the stage names whose handlers a run has invoked, in order
CallNodes(f) == [i \in 1..Len(f.calls) |-> f.calls[i].node]

\* the order the campus pipeline is meant to run in
StageOrder == <<"sensor_monitor", "maintenance_predictor", "energy_optimizer",
                "alert_generator", "recommendation_engine", "decision_maker">>

\* the readings are what the ingestion interface promises: every value a number
WellTyped(st) ==
    /\ \A i \in 1..Len(st.sensor_data) :
          GetOr(st.sensor_data[i].data, "value", Num(0)).num
    /\ \A i \in 1..Len(st.energy_data) :
          GetOr(st.energy_data[i].data, "current_consumption", Num(1000)).num

C1_Routing(f) ==
    /\ IsPrefix(CallNodes(f), StageOrder)
    /\ \A i \in 1..Len(f.calls) : f.calls[i].func = AgentNodes[StageOrder[i]]
    /\ f.pc = "loop" =>
          f.current_node = IF Len(f.calls) < Len(StageOrder)
                           THEN StageOrder[Len(f.calls) + 1] ELSE END
    /\ f.pc \in {"returned", "done"} =>
          CallNodes(f) = StageOrder /\ f.current_node = END
    /\ (f.pc # "idle" /\ WellTyped(f.initial)) => f.pc # "raised"

\* C1: whatever the readings, a run of the campus pipeline invokes the stage
\* handlers in the fixed order sensor monitor, maintenance predictor, energy
\* optimizer, alert generator, recommendation engine, decision maker, each
\* once, the stage that runs next depending on the position alone; a run that
\* was started on readings that are numbers goes through all six, reaches END
\* and returns.
C1_FixedStageOrder ==
    /\ [](\A r \in DOMAIN runs : C1_Routing(runs[r]))
    /\ (runs[1].pc = "loop" /\ WellTyped(runs[1].initial))
          ~> (runs[1].pc \in {"returned", "done"})

\* C1 witness: a run has returned after six handler invocations, on readings
\* that made the sensor monitor and the energy optimizer report something
C1_Witness ==
    \E r \in DOMAIN runs :
        /\ runs[r].pc = "returned"
        /\ Len(runs[r].calls) = 6
        /\ runs[r].current_node = END
        /\ runs[r].state.context["sensor_anomalies"] # <<>>
        /\ runs[r].state.context["energy_optimizations"] # <<>>

\* C2: a handler that raised is the last handler the run invoked (no retry, no
\* later stage), the run is left with the exception, and the state object
\* still carries what every earlier stage did to it.
C2_AbortKeepsMutations ==
    \A r \in DOMAIN runs :
        \A k \in 1..Len(runs[r].calls) :
            runs[r].calls[k].raised =>
                /\ k = Len(runs[r].calls)
                /\ runs[r].pc = "raised"
                /\ Len(runs[r].state) >= k - 1
                /\ \A j \in 1..(k - 1) : runs[r].state[j] = runs[r].calls[j].func

\* C2 witness: the third handler of a run raised after two stages had
\* marked the state
C2_Witness ==
    \E r \in DOMAIN runs :
        /\ Len(runs[r].calls) = 3
        /\ runs[r].calls[3].raised
        /\ runs[r].pc = "raised"
        /\ Len(runs[r].state) = 2

\* C3: after the handler of a stage returned the run is at the target of the
\* edge that was recorded first for that stage, however many edges were
\* recorded from it later.
C3_FirstEdgeHonored ==
    \A r \in DOMAIN runs :
        (runs[r].pc = "loop" /\ runs[r].calls # <<>>) =>
            /\ Last(runs[r].calls).node \in DOMAIN first_edge
            /\ runs[r].current_node = first_edge[Last(runs[r].calls).node]

\* C3 witness: a stage with two edges to different targets was executed and
\* the run stands at the first target
C3_Witness ==
    \E r \in DOMAIN runs :
        /\ runs[r].pc = "loop"
        /\ runs[r].calls # <<>>
        /\ LET n == Last(runs[r].calls).node
           IN  /\ Len(edges[n]) >= 2
               /\ edges[n][1] # edges[n][2]
               /\ runs[r].current_node = edges[n][1]

\* C4: a run invokes handlers only for registered names on the chain of
\* first-recorded edges from the entry, and it has returned only at a name
\* that is not registered (the sentinel among them), or right after
\* executing a stage that has no outgoing edge.
C4_StopsOnlyAtTerminal ==
    \A r \in DOMAIN runs :
        /\ \A i \in 1..Len(runs[r].calls) :
              /\ runs[r].calls[i].node \in DOMAIN nodes
              /\ runs[r].calls[i].node =
                    IF i = 1 THEN compiled
                    ELSE first_edge[runs[r].calls[i - 1].node]
        /\ runs[r].pc = "returned" =>
              \/ runs[r].current_node \notin DOMAIN nodes
              \/ /\ runs[r].calls # <<>>
                 /\ Last(runs[r].calls).node = runs[r].current_node
                 /\ runs[r].current_node \notin DOMAIN edges

\* the final states in the history belong to the runs that returned, one each
C5_HistoryMatchesRuns ==
    /\ \A i, j \in 1..Len(state_history) :
          state_history[i].obj = state_history[j].obj => i = j
    /\ { state_history[i].obj : i \in 1..Len(state_history) }
          = { r \in DOMAIN runs : runs[r].pc = "done" }
    /\ \A i \in 1..Len(state_history) :
          state_history[i].state = runs[state_history[i].obj].state

\* C5: with the calls interleaved at the awaits, a step of one run leaves the
\* state object of every other run alone, the history only grows at its end,
\* by one entry, and it holds exactly one entry per completed run, that run's
\* final state: k entries once all k runs have completed.
C5_HistoryAppendOnly ==
    /\ []C5_HistoryMatchesRuns
    /\ [][ /\ IsPrefix(state_history, state_history')
           /\ Len(state_history') <= Len(state_history) + 1
           /\ \A r, q \in DOMAIN runs :
                 (runs'[r] # runs[r] /\ q # r) => runs'[q] = runs[q] ]_vars

\* C5 witness: all runs have completed, the last one started finished first,
\* on other readings than the first
C5_Witness ==
    /\ \A r \in DOMAIN runs : runs[r].pc = "done"
    /\ Len(state_history) = NumRuns
    /\ state_history[1].obj = NumRuns
    /\ state_history[1].state # state_history[NumRuns].state

\* C6: a call in which a stage handler raised is left with the exception: it
\* returns no result mapping, hence no alerts and no recommendations, and
\* nothing of it is in the run history.
C6_FailedRunYieldsNothing ==
    \A r \in DOMAIN runs :
        (\E k \in 1..Len(runs[r].calls) : runs[r].calls[k].raised) =>
            /\ runs[r].pc = "raised"
            /\ runs[r].result = <<>>
            /\ \A i \in 1..Len(state_history) : state_history[i].obj # r

\* C6 witness: the energy optimizer of one call raised while another call
\* completed and is in the history
C6_Witness ==
    \E r, q \in DOMAIN runs :
        /\ runs[r].pc = "raised"
        /\ Len(runs[r].calls) = 3
        /\ runs[r].calls[3].raised
        /\ runs[q].pc = "done"
        /\ Len(state_history) = 1

----------------------------------------------------------------------------
(* Properties of the maintenance engine *)

\* every prediction a scoring call has returned so far
ReturnedPredictions ==
    (IF last.kind = "prediction" THEN {last} ELSE {})
       \cup { batch.predictions[i] : i \in 1..Len(batch.predictions) }

\* C7: every prediction the engine returns has a failure probability within
\* [0.01, 0.99] and a whole number of days to failure that is at least 1.
C7_PredictionRanges ==
    \A prediction \in ReturnedPredictions :
        /\ PScale <= 100 * prediction.failure_probability
        /\ 100 * prediction.failure_probability <= 99 * PScale
        /\ prediction.days_to_failure \in Nat
        /\ prediction.days_to_failure >= 1

\* C7 witness: the elevator of the example was scored at the top of what the
\* regressor returns
C7_Witness ==
    /\ last.kind = "prediction"
    /\ last.equipment_id = "eq-002"
    /\ 10 * last.failure_probability = 9 * PScale
    /\ last.days_to_failure < 30

RiskRank(risk_level) ==
    CASE risk_level = "low" -> 0
      [] risk_level = "medium" -> 1
      [] risk_level = "high" -> 2
      [] risk_level = "critical" -> 3

\* C8: between two evaluations for the same equipment type and anomaly flag,
\* each with the days derived from its probability, a probability that is
\* not lower gives a risk level that is not lower (low < medium < high <
\* critical); and with the anomaly flag set the level is critical, whatever
\* the probability and the days.
C8_RiskMonotone ==
    /\ [](last.kind = "risk" /\ last.is_anomaly => last.risk_level = "critical")
    /\ [][ ( /\ last.kind = "risk" /\ last.derived
             /\ last'.kind = "risk" /\ last'.derived
             /\ last'.equipment_type = last.equipment_type
             /\ last'.is_anomaly = last.is_anomaly
             /\ last'.failure_prob >= last.failure_prob )
           => RiskRank(last'.risk_level) >= RiskRank(last.risk_level) ]_vars

\* C8 witness: without the flag, a probability between 0.6 and 0.8 was
\* rated high
C8_Witness ==
    /\ last.kind = "risk" /\ last.derived /\ ~last.is_anomaly
    /\ 10 * last.failure_prob > 6 * PScale
    /\ 10 * last.failure_prob <= 8 * PScale
    /\ last.risk_level = "high"

\* the rule of the schedule as the design states it
C9_Rule(prediction, bucket) ==
    LET immediate == prediction.risk_level = "critical" \/ prediction.days_to_failure <= 3
        this_week == ~immediate /\ prediction.days_to_failure <= 7
        this_month == ~immediate /\ ~this_week /\ prediction.days_to_failure <= 30
    IN  CASE bucket = "immediate" -> immediate
          [] bucket = "this_week" -> this_week
          [] bucket = "this_month" -> this_month
          [] bucket = "next_quarter" -> ~immediate /\ ~this_week /\ ~this_month

\* the predictions of the list that the rule sends to the bucket, in order
C9_Expected(predictions, bucket) ==
    LET belongs(prediction) == C9_Rule(prediction, bucket)
    IN  SelectSeq(predictions, belongs)

\* C9: the schedule has the four buckets immediate, this_week, this_month
\* and next_quarter; each holds, in input order, exactly the predictions
\* whose first matching rule is its own, so every prediction of the list is
\* in one bucket, once.
C9_SchedulePartition ==
    schedule.kind = "schedule" =>
        /\ DOMAIN schedule.buckets
              = {"immediate", "this_week", "this_month", "next_quarter"}
        /\ \A bucket \in DOMAIN schedule.buckets :
              schedule.buckets[bucket] = C9_Expected(schedule.predictions, bucket)
        /\ Len(schedule.buckets.immediate) + Len(schedule.buckets.this_week)
              + Len(schedule.buckets.this_month) + Len(schedule.buckets.next_quarter)
              = Len(schedule.predictions)

\* C9 witness: three predictions went to three buckets, a critical one with
\* many days left to immediate
C9_Witness ==
    /\ schedule.kind = "schedule"
    /\ Len(schedule.predictions) = 3
    /\ schedule.predictions[1].risk_level = "critical"
    /\ schedule.predictions[1].days_to_failure = 31
    /\ Len(schedule.buckets.immediate) = 1
    /\ Len(schedule.buckets.this_week) = 1
    /\ Len(schedule.buckets.next_quarter) = 1

\* the ids of the items at positions 1..n of the list whose scoring did not raise
RECURSIVE C10_ScoredIds(_, _, _)
C10_ScoredIds(equipment_list, failed, n) ==
    IF n <= 0 THEN <<>>
    ELSE IF n \in failed THEN C10_ScoredIds(equipment_list, failed, n - 1)
    ELSE Append(C10_ScoredIds(equipment_list, failed, n - 1),
                equipment_list[n].equipment_id)

\* C10: on a list of equipment records batch scoring never raises; the
\* predictions it has collected are, in input order, those of the items
\* scored so far whose scoring did not raise, and when it returns every item
\* has been visited: N records with f failing give N - f predictions.
C10_BatchIsolatesFailures ==
    (\A k \in 1..Len(batch.equipment_list) : batch.equipment_list[k].is_record) =>
        /\ batch.pc # "raised"
        /\ [k \in 1..Len(batch.predictions) |-> batch.predictions[k].equipment_id]
              = C10_ScoredIds(batch.equipment_list, batch.failed, batch.i - 1)
        /\ batch.pc = "returned" =>
              /\ batch.i = Len(batch.equipment_list) + 1
              /\ Len(batch.predictions)
                    = Len(batch.equipment_list) - Cardinality(batch.failed)

\* C10 witness: the first of two records failed and the second was scored
C10_Witness ==
    /\ batch.pc = "returned"
    /\ Len(batch.equipment_list) = 2
    /\ batch.failed = {1}
    /\ Len(batch.predictions) = 1
    /\ batch.predictions[1].equipment_id = batch.equipment_list[2].equipment_id

\* the EquipmentData a prediction was made for
RecordOf(equipment_id) ==
    CHOOSE equipment \in EquipmentRecords : equipment.equipment_id = equipment_id

\* the anomaly flag a prediction was made under, as its factors show it
FlaggedAnomalous(prediction) ==
    \E i \in DOMAIN prediction.factors :
        prediction.factors[i] = "Anomalous sensor readings"

\* C11: the failure probability of a returned prediction is the clamped
\* weighted sum of the record's condition factors, and a scoring call on the
\* record and anomaly flag of the call before it returns the same prediction.
C11_ScoringIsWeightedSum ==
    /\ [](\A prediction \in ReturnedPredictions :
            prediction.failure_probability * ProbUnit
               = CalculateFailureProbability(RecordOf(prediction.equipment_id)) * PScale)
    /\ [][(/\ last.kind = "prediction"
           /\ last'.kind = "prediction"
           /\ last'.equipment_id = last.equipment_id
           /\ FlaggedAnomalous(last') = FlaggedAnomalous(last))
          => last' = last]_vars

\* the type factor as the design lists it, in tenths
C12_FactorX10(equipment_type) ==
    CASE equipment_type = "hvac" -> 12
      [] equipment_type = "elevator" -> 8
      [] equipment_type = "generator" -> 15
      [] equipment_type = "pump" -> 10
      [] equipment_type = "lighting" -> 20
      [] OTHER -> 10

\* n is (1 - failure_prob) * 365 rounded to a nearest whole number
C12_Rounds(n, failure_prob) ==
    LET exact == (PScale - failure_prob) * 365
        diff == n * PScale - exact
    IN  2 * diff <= PScale /\ 2 * diff >= -PScale

\* n is x / y with its fraction cut off, for x >= 0 and y > 0
C12_Truncates(n, x, y) == n * y <= x /\ x < (n + 1) * y

\* C12 as stated: days_to_failure is round((1 - failure_probability) * 365)
\* times the type factor, and 1 where that is less than 1.
C12_DaysRounded ==
    (last.kind = "risk" /\ last.derived) =>
        \E n \in 0..365 :
            /\ C12_Rounds(n, last.failure_prob)
            /\ 10 * last.days_to_failure
                  = Max(10, n * C12_FactorX10(last.equipment_type))

\* C12 amended: days_to_failure is (1 - failure_probability) * 365 with its
\* fraction cut off, times the type factor, with the fraction of the product
\* cut off again, and 1 where that is less than 1.
C12_DaysTruncated ==
    (last.kind = "risk" /\ last.derived) =>
        \E base_days \in 0..365 :
            /\ C12_Truncates(base_days, (PScale - last.failure_prob) * 365, PScale)
            /\ \E days \in 0..(2 * 365) :
                  /\ C12_Truncates(days,
                                   base_days * C12_FactorX10(last.equipment_type), 10)
                  /\ last.days_to_failure = Max(1, days)

\* C12 witness: an elevator at probability 0.85: 54.75 days are cut to 54,
\* and 54 * 0.8 = 43.2 to 43
C12_Witness ==
    /\ last.kind = "risk" /\ last.derived
    /\ last.equipment_type = "elevator"
    /\ 20 * last.failure_prob = 17 * PScale
    /\ last.days_to_failure = 43

\* the decisions of a kind among those the stage left in the context
AutoApprovedDecisions(decisions) ==
    { n \in DOMAIN decisions :
         /\ "decision" \in DOMAIN decisions[n]
         /\ decisions[n].decision = "auto_approved" }

HumanReviewDecisions(decisions) ==
    { n \in DOMAIN decisions :
         /\ "type" \in DOMAIN decisions[n]
         /\ decisions[n].type = "human_review_required" }

\* C13: after the decision maker, context.decisions holds one auto_approved
\* decision for each energy-optimization recommendation whose impact is not
\* critical and none for any other recommendation, and a human_review_required
\* decision if and only if some alert is critical, which lists the ids of
\* exactly the critical alerts.
C13_DecisionsMatch ==
    last.kind = "decisions" =>
        LET decisions == last.state.context["decisions"]
            recommendations == last.state.recommendations
            alerts == last.state.alerts
            approved == AutoApprovedDecisions(decisions)
            review == HumanReviewDecisions(decisions)
            critical == { n \in DOMAIN alerts : alerts[n].severity = "critical" }
        IN  /\ approved \cup review = DOMAIN decisions
            /\ \A rec \in RecommendationSamples :
                  Cardinality({ n \in approved :
                                   decisions[n].recommendation_id = rec.id })
                     = Cardinality({ n \in DOMAIN recommendations :
                                        /\ recommendations[n].id = rec.id
                                        /\ recommendations[n].type = "energy_optimization"
                                        /\ recommendations[n].impact # "critical" })
            /\ (review # {}) <=> (critical # {})
            /\ Cardinality(review) <= 1
            /\ \A n \in review :
                  /\ { decisions[n].alert_ids[i] : i \in DOMAIN decisions[n].alert_ids }
                        = { alerts[i].id : i \in critical }
                  /\ Len(decisions[n].alert_ids) = Cardinality(critical)

\* C13 witness: of an energy and a maintenance recommendation, both of high
\* impact, only the first was approved, and no review was asked for the one
\* alert, a warning
C13_Witness ==
    /\ last.kind = "decisions"
    /\ Len(last.state.recommendations) = 2
    /\ last.state.recommendations[1].type = "energy_optimization"
    /\ last.state.recommendations[1].impact = "high"
    /\ last.state.recommendations[2].type = "maintenance"
    /\ last.state.recommendations[2].impact = "high"
    /\ Len(last.state.alerts) = 1
    /\ last.state.alerts[1].severity = "warning"
    /\ Len(last.state.context["decisions"]) = 1
    /\ last.state.context["decisions"][1].recommendation_id
          = last.state.recommendations[1].id

\* the AgentTask value that names a stage; there is none for the decision maker
C14_TaskOf(node) ==
    CASE node = "sensor_monitor" -> "monitor_sensors"
      [] node = "maintenance_predictor" -> "predict_maintenance"
      [] node = "energy_optimizer" -> "optimize_energy"
      [] node = "alert_generator" -> "generate_alerts"
      [] node = "recommendation_engine" -> "provide_recommendations"
      [] OTHER -> None

\* what the field holds while an earlier stage than the node is the current one
C14_EarlierTasks(node) ==
    {None} \cup { C14_TaskOf(StageOrder[i]) :
                    i \in { j \in DOMAIN StageOrder :
                              \E k \in DOMAIN StageOrder :
                                  StageOrder[k] = node /\ j < k } }

\* C14: in the state a stage of a run hands on, and in the state the run
\* returns after the decision maker, current_task names that stage and not
\* an earlier one.
C14_TaskNamesStage ==
    \A r \in DOMAIN runs :
        (Len(runs[r].calls) > 0 /\ ~Last(runs[r].calls).raised) =>
            LET node == Last(runs[r].calls).node
                current_task == runs[r].state.current_task
            IN  /\ C14_TaskOf(node) # None => current_task = C14_TaskOf(node)
                /\ current_task \notin C14_EarlierTasks(node)

\* what no scoring call may show: a model that was asked before it was fitted
C15_Fitted ==
    /\ last.kind = "raised" => last.error # "ValueError"
    /\ \A i \in batch.failed :
          ~(/\ batch.equipment_list[i].is_record
            /\ ScoringCompletes(batch.equipment_list[i]))
    /\ (last # NoCall \/ batch.i > 1) =>
          (engine.failure_model_fitted /\ engine.anomaly_detector_fitted)
    /\ engine.is_trained =>
          (engine.failure_model_fitted /\ engine.anomaly_detector_fitted)

\* C15: whatever train and score calls are made, in whatever order, no scoring
\* call fails because a model is not fitted: a well-formed record is scored,
\* an engine that was never trained having fitted itself first; and an engine
\* that is trained stays trained.
C15_NotTrainedNeverSurfaces ==
    /\ []C15_Fitted
    /\ [][engine.is_trained => engine'.is_trained]_vars

\* C15 witness: a prediction came back from an engine that had to bootstrap
\* itself, a training call on a malformed list or none having come first
C15_Witness ==
    /\ last.kind = "prediction"
    /\ engine.mock_trained
    /\ engine.is_trained

\* C16: when the risk level of every prediction of the list is the one the
\* risk rule gives, the schedule's this_week bucket is empty: a prediction with
\* at most 7 days to failure is critical and is found under immediate.
C16_ThisWeekEmpty ==
    schedule.kind = "schedule" =>
        /\ schedule.buckets.this_week = <<>>
        /\ \A i \in DOMAIN schedule.predictions :
              schedule.predictions[i].days_to_failure <= 7 =>
                 /\ schedule.predictions[i].risk_level = "critical"
                 /\ \E j \in DOMAIN schedule.buckets.immediate :
                       schedule.buckets.immediate[j] = schedule.predictions[i]

\* C16 witness: predictions with 4 and with 7 days left, which the days alone
\* would send to this_week, were scheduled with one that has 8 days left
C16_Witness ==
    /\ schedule.kind = "schedule"
    /\ Len(schedule.predictions) = 3
    /\ schedule.predictions[1].days_to_failure = 4
    /\ schedule.predictions[2].days_to_failure = 7
    /\ schedule.predictions[3].days_to_failure = 8
    /\ schedule.predictions[3].risk_level = "high"
    /\ Len(schedule.buckets.immediate) = 2
    /\ Len(schedule.buckets.this_month) = 1

\* the positions of a list of records at which the id stands
C17_Holders(records, id) == { n \in DOMAIN records : records[n].id = id }

\* C17: in the state a process_campus_data run ends with, no two alerts share
\* an id and no two recommendations do, and every recommendation id and alert
\* id that a decision refers to is the id of exactly one record of the run.
C17_IdsIdentify ==
    \A r \in DOMAIN runs :
        runs[r].pc \in {"returned", "done"} =>
            LET alerts == runs[r].state.alerts
                recommendations == runs[r].state.recommendations
                decisions == runs[r].state.context["decisions"]
            IN  /\ \A m, n \in DOMAIN alerts : alerts[m].id = alerts[n].id => m = n
                /\ \A m, n \in DOMAIN recommendations :
                      recommendations[m].id = recommendations[n].id => m = n
                /\ \A n \in AutoApprovedDecisions(decisions) :
                      Cardinality(C17_Holders(recommendations,
                                              decisions[n].recommendation_id)) = 1
                /\ \A n \in HumanReviewDecisions(decisions) :
                      \A i \in DOMAIN decisions[n].alert_ids :
                          Cardinality(C17_Holders(alerts, decisions[n].alert_ids[i])) = 1

\* C17 witness: a run ended with alerts from two anomalies and a prediction,
\* recommendations from a building and a prediction, and decisions that refer
\* to a recommendation and to an alert
C17_Witness ==
    \E r \in DOMAIN runs :
        /\ runs[r].pc = "done"
        /\ Len(runs[r].state.alerts) = 3
        /\ Len(runs[r].state.recommendations) = 2
        /\ AutoApprovedDecisions(runs[r].state.context["decisions"]) # {}
        /\ HumanReviewDecisions(runs[r].state.context["decisions"]) # {}

====
